---- MODULE Spec2Model ----
(***************************************************************************)
(* koishi-plugin-w-tesseract: TesseractService (src/src/index.ts).         *)
(*                                                                         *)
(* Strings are sequences of one-character strings, so that endsWith,       *)
(* slice, split and path.resolve are computed as the code computes them.   *)
(* A path is the sequence of its segments below "/".  The contents of a    *)
(* file is a sequence of chunks; the k-th chunk of the download made by    *)
(* install i of call c is <<c, i, k>>, so the provenance of every chunk of *)
(* a file is visible.                                                      *)
(***************************************************************************)
EXTENDS Integers, Sequences, FiniteSets, TLC

VARIABLES calls, dirs, files

vars == <<calls, dirs, files>>

-----------------------------------------------------------------------------
(* Bounds *)

MaxCalls == 1
MaxInstalls == 2
MaxChunks == 1

Calls == 1..MaxCalls

-----------------------------------------------------------------------------
(* Strings *)

Suffix == <<".", "t", "r", "a", "i", "n", "e", "d", "d", "a", "t", "a", ".", "g", "z">>

SliceCount == 15

Eng == <<"e", "n", "g">>
Osd == <<"o", "s", "d">>
UpEng == <<".", ".", "/", "e", "n", "g">>
Comma == <<",">>

Langs == {Eng, UpEng}

LangLists == {<<>>, <<Eng, Osd>>, <<Osd, Osd>>}

OptLangs == {<<>>, Osd \o Comma \o Eng}

Max(a, b) == IF a >= b THEN a ELSE b

\* String.prototype.endsWith
endsWith(s, t) ==
    /\ Len(s) >= Len(t)
    /\ SubSeq(s, Len(s) - Len(t) + 1, Len(s)) = t

\* s.slice(0, -n)
sliceOff(s, n) == SubSeq(s, 1, Max(Len(s) - n, 0))

sliceOff14(s) == sliceOff(s, SliceCount - 1)
\* s.slice(0, - 15)
stripSuffix(s) == sliceOff(s, SliceCount)

\* String.prototype.split on a one-character separator
RECURSIVE split(_, _)
split(s, ch) ==
    LET hits == {i \in 1..Len(s) : s[i] = ch} IN
    IF hits = {} THEN <<s>>
    ELSE LET i == CHOOSE j \in hits : \A k \in hits : j <= k
         IN <<SubSeq(s, 1, i - 1)>> \o split(SubSeq(s, i + 1, Len(s)), ch)

\* `${lang}.traineddata.gz`
gzipFileName(lang) == lang \o Suffix

-----------------------------------------------------------------------------
(* Paths *)

RECURSIVE normalize(_, _)
normalize(acc, segs) ==
    IF segs = <<>> THEN acc
    ELSE LET s == Head(segs) IN
         IF s = <<>> \/ s = <<".">> THEN normalize(acc, Tail(segs))
         ELSE IF s = <<".", ".">>
              THEN normalize(IF acc = <<>> THEN acc ELSE SubSeq(acc, 1, Len(acc) - 1),
                             Tail(segs))
              ELSE normalize(Append(acc, s), Tail(segs))

\* path.resolve(from, to), from absolute and already resolved
resolve(from, to) ==
    IF to /= <<>> /\ to[1] = "/"
    THEN normalize(<<>>, split(to, "/"))
    ELSE normalize(from, split(to, "/"))

baseDir == << <<"b">> >>

configLangPath == <<"d", "a", "t", "a", "/", "t", "e", "s", "s", "e", "r", "a", "c", "t">>

langPath == resolve(baseDir, configLangPath)

gzipFilePath(lang) == resolve(langPath, gzipFileName(lang))

Prefixes(p) == {SubSeq(p, 1, k) : k \in 0..Len(p)}

Parent(p) == SubSeq(p, 1, Len(p) - 1)

-----------------------------------------------------------------------------
(* The file system *)

Hole == <<0, 0, 0>>
Pre == <<0, 0, 1>>

RECURSIVE Holes(_)
Holes(n) == IF n <= 0 THEN <<>> ELSE <<Hole>> \o Holes(n - 1)

\* a write of chunk v at offset pos (1-based) of the writer's own descriptor
writeAt(data, pos, v) ==
    IF pos <= Len(data) THEN [data EXCEPT ![pos] = v]
    ELSE data \o Holes(pos - Len(data) - 1) \o <<v>>

\* fs.readdir(d): the names of the entries of directory d
readdir(d) ==
    {p[Len(p)] : p \in {q \in dirs \cup DOMAIN files : Len(q) = Len(d) + 1 /\ Parent(q) = d}}

\* fs.mkdir(langPath, { recursive: true }) succeeds
mkdirOk(io) == io /= "mkdir" /\ Prefixes(langPath) \cap DOMAIN files = {}

mkdirDirs(io) == IF mkdirOk(io) THEN dirs \cup Prefixes(langPath) ELSE dirs

IoOutcomes == {"ok", "mkdir", "readdir"}

getInstalledLangsNoCatch(io) ==
    IF mkdirOk(io) /\ io = "ok"
    THEN [langs |-> {stripSuffix(s) : s \in {n \in readdir(langPath) : endsWith(n, Suffix)}},
          raised |-> FALSE, logged |-> FALSE]
    ELSE [langs |-> {}, raised |-> TRUE, logged |-> FALSE]
getInstalledLangs(io) ==
    IF mkdirOk(io) /\ io = "ok"
    THEN [langs |-> {stripSuffix(s) : s \in {n \in readdir(langPath) : endsWith(n, Suffix)}},
          raised |-> FALSE, logged |-> FALSE]
    ELSE [langs |-> {}, raised |-> FALSE, logged |-> TRUE]

-----------------------------------------------------------------------------
(* Calls: one record per invocation of a command or of a service method *)

IdleCall ==
    [kind |-> "idle", pc |-> "-", status |-> "-", error |-> "none",
     langs |-> <<>>,
     lists |-> FALSE, failed |-> FALSE, dir |-> {}, listed |-> {},
     missing |-> <<>>, created |-> FALSE, worker |-> "none",
     subs |-> <<>>, logs |-> {}]

Returned(k) == [k EXCEPT !.status = "returned", !.pc = "done"]

Thrown(k, e) == [k EXCEPT !.status = "thrown", !.pc = "done", !.error = e]

\* the call continues after `await this.getInstalledLangs()` returned r; lists, failed
\* and dir record that a listing ran, whether mkdir or readdir failed in it, and what
\* the asset root held at that moment
Listed(k, r, io) ==
    [k EXCEPT !.lists = TRUE, !.failed = ~(mkdirOk(io) /\ io = "ok"), !.dir = readdir(langPath), !.listed = r.langs,
              !.logs = @ \cup (IF r.logged THEN {"listError"} ELSE {})]

RECURSIVE SubsUpTo(_)
SubsUpTo(c) == IF c = 0 THEN 0 ELSE Len(calls[c].subs) + SubsUpTo(c - 1)

TotalSubs == SubsUpTo(MaxCalls)

\* calls are started in the order of their numbers
IsNext(c) ==
    /\ calls[c].kind = "idle"
    /\ \A d \in Calls : d < c => calls[d].kind /= "idle"

-----------------------------------------------------------------------------
(* installLang *)

\* installLang(lang) up to its first await: the names, the log line, the GET issued;
\* had records whether the asset root held the language's file at that moment
installLang(lang) ==
    [lang |-> lang, file |-> gzipFileName(lang), path |-> gzipFilePath(lang),
     pc |-> "get", sent |-> 0, err |-> "none",
     had |-> gzipFileName(lang) \in readdir(langPath)]

Settled(s) == s.pc \in {"resolved", "rejected"}

\* Promise.all over the installs of installNecessaryLangs, install i just settled
promiseAllSettled(k, i) ==
    IF k.status /= "pending" \/ \E j \in 1..Len(k.subs) : ~Settled(k.subs[j]) THEN k
    ELSE IF \A j \in 1..Len(k.subs) : k.subs[j].pc = "resolved" THEN Returned(k)
    ELSE Thrown(k, k.subs[i].err)
promiseAll(k, i) ==
    IF k.status /= "pending" THEN k
    ELSE IF k.subs[i].pc = "rejected" THEN Thrown(k, k.subs[i].err)
    ELSE IF \A j \in 1..Len(k.subs) : k.subs[j].pc = "resolved" THEN Returned(k)
    ELSE k

\* the install command's try/catch around `await this.installLang(lang)`
installCommandAwait(k, i) ==
    IF k.subs[i].pc = "rejected"
    THEN Thrown([k EXCEPT !.logs = @ \cup {"installError"}], k.subs[i].err)
    ELSE IF k.subs[i].pc = "resolved" THEN [k EXCEPT !.pc = "list"]
    ELSE k

\* install i of call k moved to s: whoever awaits it continues
Settle(k, i, s) ==
    LET k1 == [k EXCEPT !.subs[i] = s,
                        !.logs = @ \cup (IF s.pc = "resolved" THEN {"success"} ELSE {})]
    IN IF ~Settled(s) THEN k1
       ELSE IF k.kind = "install" THEN installCommandAwait(k1, i)
       ELSE promiseAll(k1, i)

\* sent is the position of the write stream, which is gone once the install settled
Reject(s, e) == [s EXCEPT !.pc = "rejected", !.err = e, !.sent = 0]

Resolve(s) == [s EXCEPT !.pc = "resolved", !.sent = 0]

HasSub(c, i, pc) ==
    /\ calls[c].kind \in {"install", "necessary"}
    /\ i \in 1..Len(calls[c].subs)
    /\ calls[c].subs[i].pc = pc

\* fsSync.createWriteStream(gzipFilePath), flags 'w': create or truncate
canOpen(p, ds) == Parent(p) \in ds /\ p \notin ds

OpenOutcomes == {"timeout", "mkdir", "open", "ok"}

\* installLang from `await this.ctx.http.get(...)` to the write stream being open:
\* the GET fails (the timeout stands for every failed request), or mkdir fails, or the file cannot be opened,
\* or the file is created or truncated and the body starts to flow
installLangOpen(c, i, res) ==
    /\ HasSub(c, i, "get")
    /\ LET s == calls[c].subs[i]
           io == IF res \in {"open", "ok"} THEN "ok" ELSE "mkdir"
           ds == IF res = "timeout" THEN dirs ELSE mkdirDirs(io)
           opened == res = "ok" /\ mkdirOk(io) /\ canOpen(s.path, ds)
       IN /\ dirs' = ds
          /\ calls' = [calls EXCEPT ![c] =
                          Settle(@, i, IF opened THEN [s EXCEPT !.pc = "write"]
                                       ELSE IF res = "timeout" THEN Reject(s, res)
                                       ELSE Reject(s, "fs"))]
          /\ files' = IF opened
                      THEN [p \in DOMAIN files \cup {s.path} |->
                               IF p = s.path THEN <<>> ELSE files[p]]
                      ELSE files

\* resp.pipeTo(...): one chunk of the body reaches the file
installLangWrite(c, i) ==
    /\ HasSub(c, i, "write")
    /\ calls[c].subs[i].sent < MaxChunks
    /\ LET s == calls[c].subs[i] IN
       /\ calls' = [calls EXCEPT ![c] = Settle(@, i, [s EXCEPT !.sent = @ + 1])]
       /\ files' = [files EXCEPT ![s.path] = writeAt(@, s.sent + 1, <<c, i, s.sent + 1>>)]
    /\ UNCHANGED dirs

\* resp.pipeTo(...) rejects: the body (timeout) or the write stream (fs) errored
installLangAbort(c, i, e) ==
    /\ HasSub(c, i, "write")
    /\ calls' = [calls EXCEPT ![c] = Settle(@, i, Reject(calls[c].subs[i], e))]
    /\ UNCHANGED <<dirs, files>>

\* resp.pipeTo(...) resolves: the body ended and the file is closed
installLangDone(c, i) ==
    /\ HasSub(c, i, "write")
    /\ calls' = [calls EXCEPT ![c] = Settle(@, i, Resolve(calls[c].subs[i]))]
    /\ UNCHANGED <<dirs, files>>

-----------------------------------------------------------------------------
(* The commands and the service methods *)

\* tesseract.lang.list
LangList(c, io) ==
    /\ IsNext(c)
    /\ LET r == getInstalledLangs(io)
           k == Listed([IdleCall EXCEPT !.kind = "list"], r, io)
       IN calls' = [calls EXCEPT ![c] = IF r.raised THEN Thrown(k, "listing") ELSE Returned(k)]
    /\ dirs' = mkdirDirs(io)
    /\ UNCHANGED files

\* tesseract.lang.install <lang>: the action up to `await this.installLang(lang)`
LangInstall(c, lang) ==
    /\ IsNext(c)
    /\ TotalSubs + 1 <= MaxInstalls
    /\ calls' = [calls EXCEPT ![c] =
                    [IdleCall EXCEPT !.kind = "install", !.pc = "await", !.status = "pending",
                                     !.langs = <<lang>>, !.subs = <<installLang(lang)>>,
                                     !.logs = {"download"}]]
    /\ UNCHANGED <<dirs, files>>

\* tesseract.lang.install: `const langs = await this.getInstalledLangs()` and the reply
LangInstallList(c, io) ==
    /\ calls[c].kind = "install"
    /\ calls[c].pc = "list"
    /\ LET r == getInstalledLangs(io)
           k == Listed(calls[c], r, io)
       IN calls' = [calls EXCEPT ![c] = IF r.raised THEN Thrown(k, "listing") ELSE Returned(k)]
    /\ dirs' = mkdirDirs(io)
    /\ UNCHANGED files

\* langs.filter(lang => ! installedLangs.includes(lang))
missingWrong(langs, installed) == SelectSeq(langs, LAMBDA l : l \in installed)
missingLangs(langs, installed) == SelectSeq(langs, LAMBDA l : l \notin installed)

\* installNecessaryLangs(langs)
installNecessaryLangs(c, langs, io) ==
    /\ IsNext(c)
    /\ TotalSubs + Len(langs) <= MaxInstalls
    /\ LET r == getInstalledLangs(io)
           todo == missingLangs(langs, r.langs)
           k == [Listed([IdleCall EXCEPT !.kind = "necessary"], r, io)
                    EXCEPT !.status = "pending", !.pc = "await", !.langs = langs,
                           !.missing = todo,
                           !.subs = [j \in 1..Len(todo) |-> installLang(todo[j])],
                           !.logs = @ \cup (IF todo = <<>> THEN {} ELSE {"download"})]
       IN calls' = [calls EXCEPT ![c] =
                       IF r.raised THEN Thrown(Listed(IdleCall, r, io), "listing")
                       ELSE IF todo = <<>> THEN Returned(k)
                       ELSE k]
    /\ dirs' = mkdirDirs(io)
    /\ UNCHANGED files

\* createWorker(langs, options) called on the service
createWorkerCall(c, langs) ==
    /\ IsNext(c)
    /\ calls' = [calls EXCEPT ![c] =
                    [IdleCall EXCEPT !.kind = "worker", !.pc = "check", !.status = "pending",
                                     !.langs = langs]]
    /\ UNCHANGED <<dirs, files>>

\* createWorker: the listing, the missing-languages check, the call of tesseract.js
createWorkerCheck(c, io) ==
    /\ calls[c].kind \in {"worker", "recognize"}
    /\ calls[c].pc = "check"
    /\ LET r == getInstalledLangs(io)
           k == Listed(calls[c], r, io)
           miss == missingLangs(k.langs, r.langs)
       IN calls' = [calls EXCEPT ![c] =
                       IF r.raised THEN Thrown(k, "listing")
                       ELSE IF Len(miss) /= 0 THEN Thrown([k EXCEPT !.missing = miss], "missing")
                       ELSE [k EXCEPT !.pc = "create", !.created = TRUE]]
    /\ dirs' = mkdirDirs(io)
    /\ UNCHANGED files

\* tesseract.js createWorker(langs, 1, { langPath, ...options }) settles
createWorkerDone(c, ok) ==
    /\ calls[c].kind \in {"worker", "recognize"}
    /\ calls[c].pc = "create"
    /\ calls' = [calls EXCEPT ![c] =
                    IF ~ok THEN Thrown(@, "engine")
                    ELSE IF @.kind = "worker" THEN Returned([@ EXCEPT !.worker = "live"])
                    ELSE [@ EXCEPT !.worker = "live", !.pc = "recognize"]]
    /\ UNCHANGED <<dirs, files>>

\* tesseract.recognize <content>: up to `await ctx.http.get(src, ...)`
Recognize(c, hasImg, opt) ==
    /\ IsNext(c)
    /\ calls' = [calls EXCEPT ![c] =
                    IF ~hasImg THEN Returned([IdleCall EXCEPT !.kind = "recognize"])
                    ELSE [IdleCall EXCEPT !.kind = "recognize", !.pc = "image",
                                          !.status = "pending",
                                          !.langs = IF opt = <<>> THEN <<>> ELSE split(opt, ",")]]
    /\ UNCHANGED <<dirs, files>>

\* the image: ctx.http.get(src, stream) and streamToBuffer(stream), then the languages
RecognizeImage(c, ok) ==
    /\ calls[c].kind = "recognize"
    /\ calls[c].pc = "image"
    /\ calls' = [calls EXCEPT ![c] =
                    IF ~ok THEN Thrown(@, "http")
                    ELSE IF @.langs /= <<>> THEN [@ EXCEPT !.pc = "check"]
                    ELSE [@ EXCEPT !.pc = "first"]]
    /\ UNCHANGED <<dirs, files>>

\* (await this.getInstalledLangs()).slice(0, 1)
RecognizeFirst(c, io) ==
    /\ calls[c].kind = "recognize"
    /\ calls[c].pc = "first"
    /\ LET r == getInstalledLangs(io) IN
       \E first \in IF r.langs = {} THEN {<<>>} ELSE {<<l>> : l \in r.langs} :
          calls' = [calls EXCEPT ![c] =
                       IF r.raised THEN Thrown(Listed(@, r, io), "listing")
                       ELSE [Listed(@, r, io) EXCEPT !.langs = first, !.pc = "check"]]
    /\ dirs' = mkdirDirs(io)
    /\ UNCHANGED files

\* await worker.recognize(buffer); worker.terminate(); the reply
RecognizeDone(c, ok) ==
    /\ calls[c].kind = "recognize"
    /\ calls[c].pc = "recognize"
    /\ calls' = [calls EXCEPT ![c] =
                    IF ~ok THEN Thrown(@, "recognize")
                    ELSE Returned([@ EXCEPT !.worker = "terminated"])]
    /\ UNCHANGED <<dirs, files>>

-----------------------------------------------------------------------------
(* The initial file system: no asset root yet, an empty one, or one with entries *)

Dee == <<"d">>

RootNames ==
    {gzipFileName(Eng), Suffix, <<"x">>, Eng \o Tail(Suffix), gzipFileName(Osd) \o <<".", "1">>}

InitFs ==
    {[dirs |-> Prefixes(baseDir), names |-> {}],
     [dirs |-> Prefixes(langPath) \cup {Append(langPath, gzipFileName(Dee))}, names |-> RootNames]}

Init ==
    /\ calls = [c \in Calls |-> IdleCall]
    /\ \E f \in InitFs :
          /\ dirs = f.dirs
          /\ files = [p \in {Append(langPath, n) : n \in f.names} |-> <<Pre>>]

Next ==
    \/ \E c \in Calls, io \in IoOutcomes : LangList(c, io)
    \/ \E c \in Calls, lang \in Langs : LangInstall(c, lang)
    \/ \E c \in Calls, io \in IoOutcomes : LangInstallList(c, io)
    \/ \E c \in Calls, langs \in LangLists, io \in IoOutcomes : installNecessaryLangs(c, langs, io)
    \/ \E c \in Calls, langs \in LangLists : createWorkerCall(c, langs)
    \/ \E c \in Calls, io \in IoOutcomes : createWorkerCheck(c, io)
    \/ \E c \in Calls, ok \in BOOLEAN : createWorkerDone(c, ok)
    \/ \E c \in Calls, hasImg \in BOOLEAN, opt \in OptLangs : Recognize(c, hasImg, opt)
    \/ \E c \in Calls, ok \in BOOLEAN : RecognizeImage(c, ok)
    \/ \E c \in Calls, io \in IoOutcomes : RecognizeFirst(c, io)
    \/ \E c \in Calls, ok \in BOOLEAN : RecognizeDone(c, ok)
    \/ \E c \in Calls, i \in 1..MaxInstalls, res \in OpenOutcomes : installLangOpen(c, i, res)
    \/ \E c \in Calls, i \in 1..MaxInstalls : installLangWrite(c, i)
    \/ \E c \in Calls, i \in 1..MaxInstalls, e \in {"timeout", "fs"} : installLangAbort(c, i, e)
    \/ \E c \in Calls, i \in 1..MaxInstalls : installLangDone(c, i)

Spec == Init /\ [][Next]_vars

-----------------------------------------------------------------------------
(* What the claims speak of *)

Range(q) == {q[j] : j \in 1..Len(q)}

Heads(names) == UNION {{SubSeq(n, 1, j) : j \in 0..Len(n)} : n \in names}

\* the languages L whose file name L.traineddata.gz is among names
AssetLangs(names) == {l \in Heads(names) : l \o Suffix \in names}

Installs == {<<c, i>> \in Calls \X (1..MaxInstalls) : i <= Len(calls[c].subs)}

Sub(x) == calls[x[1]].subs[x[2]]

\* the bytes install x downloaded and wrote
Body(x, n) == [j \in 1..n |-> <<x[1], x[2], j>>]

\* what a listing that succeeds now returns
ListedNow == getInstalledLangs("ok").langs

IsAsset(p) == Parent(p) = langPath /\ endsWith(p[Len(p)], Suffix)

BeingWritten(p) == \E x \in Installs : Sub(x).path = p /\ Sub(x).pc = "write"

-----------------------------------------------------------------------------
(* C1: after install(L) completed successfully, the listing that follows it, when it
   succeeds, contains L: the install command that returned after a successful
   listing lists the language it installed. *)
C1_InstalledIsListed ==
    \A c \in Calls :
        (calls[c].kind = "install" /\ calls[c].status = "returned" /\ ~calls[c].failed)
            => calls[c].langs[1] \in calls[c].listed

(* C2: createWorker fails with the missing-assets error naming exactly the requested
   languages its listing did not report, tesseract.js createWorker is not invoked and
   no worker exists then; a worker is constructed only when every requested language
   was reported. *)
C2_MissingExactly ==
    \A c \in Calls :
        LET k == calls[c]
            absent == {j \in 1..Len(k.langs) : k.langs[j] \notin k.listed}
        IN /\ k.kind \in {"worker", "recognize"} /\ k.pc \in {"create", "recognize"} => k.created
           /\ k.error = "missing" =>
                 /\ k.status = "thrown"
                 /\ ~k.created /\ k.worker = "none"
                 /\ k.missing /= <<>>
                 /\ Len(k.missing) = Cardinality(absent)
                 /\ Range(k.missing) = {k.langs[j] : j \in absent}
           /\ k.created => absent = {} /\ k.error /= "missing"
           /\ k.worker /= "none" => k.created

C2_Witness ==
    \E c \in Calls :
        /\ calls[c].error = "missing"
        /\ Len(calls[c].langs) = 2
        /\ Len(calls[c].missing) = 1

(* C3, as claimed: every listing returns exactly the asset-root entries whose name
   ends in ".traineddata.gz", each with the suffix removed. *)
C3_ListingExact ==
    \A c \in Calls : calls[c].lists => calls[c].listed = AssetLangs(calls[c].dir)

(* C3, amended: a listing whose mkdir and readdir succeed returns exactly the
   asset-root entries whose name ends in ".traineddata.gz", each with the suffix
   removed; one that fails returns the empty list; and stripping the suffix from the
   file name derived from a language code gives the code back. *)
C3_ListingExactWhenRead ==
    /\ \A c \in Calls :
          calls[c].lists =>
              calls[c].listed = IF calls[c].failed THEN {} ELSE AssetLangs(calls[c].dir)
    /\ \A x \in Installs :
          /\ endsWith(Sub(x).file, Suffix)
          /\ stripSuffix(Sub(x).file) = Sub(x).lang

C3_Witness ==
    \E c \in Calls :
        /\ calls[c].lists /\ ~calls[c].failed
        /\ Eng \in calls[c].listed
        /\ \E n \in calls[c].dir : ~endsWith(n, Suffix) /\ endsWith(n, Tail(Suffix))
        /\ \E x \in Installs : x[1] = c /\ Sub(x).lang = UpEng

(* C4: installNecessaryLangs starts a download only for requested languages its
   listing does not report, exactly one per such language, and none for a requested
   language whose asset file the asset root already holds. *)
C4_OnlyMissingOnce ==
    \A c \in Calls :
        calls[c].kind = "necessary" =>
            LET k == calls[c]
                for(l) == {i \in 1..Len(k.subs) : k.subs[i].lang = l}
            IN /\ \A i \in 1..Len(k.subs) : k.subs[i].lang \notin k.listed
               /\ \A l \in Range(k.langs) :
                     /\ l \notin k.listed => Cardinality(for(l)) = 1
                     /\ l \in AssetLangs(k.dir) => for(l) = {}

(* C5, as claimed: installNecessaryLangs has failed only when every install of the
   batch has settled. *)
C5_FailsAfterAllSettled ==
    \A c \in Calls :
        (calls[c].kind = "necessary" /\ calls[c].status = "thrown")
            => \A i \in 1..Len(calls[c].subs) : Settled(calls[c].subs[i])

(* C5, amended: installNecessaryLangs fails as soon as one install of the batch
   fails, whatever the others are doing; the error it reports is the error of the
   install that failed first and does not change afterwards; the file of an install
   that succeeded stays. *)
C5_FailsAtFirstFailure ==
    /\ [](\A c \in Calls :
            calls[c].kind = "necessary" =>
                LET k == calls[c]
                    bad == {i \in 1..Len(k.subs) : k.subs[i].pc = "rejected"}
                IN /\ k.status = "thrown" <=> bad /= {}
                   /\ k.status = "returned" <=>
                         \A i \in 1..Len(k.subs) : k.subs[i].pc = "resolved"
                   /\ k.status = "thrown" => k.error \in {k.subs[i].err : i \in bad}
                   /\ \A i \in 1..Len(k.subs) :
                         k.subs[i].pc = "resolved" => k.subs[i].path \in DOMAIN files)
    /\ [][\A c \in Calls :
            calls[c].kind = "necessary" =>
                /\ \A i \in 1..Len(calls[c].subs) :
                      (/\ calls[c].status = "pending"
                       /\ calls[c].subs[i].pc /= "rejected"
                       /\ calls'[c].subs[i].pc = "rejected")
                          => calls'[c].error = calls'[c].subs[i].err
                /\ calls[c].status = "thrown" =>
                      calls'[c].status = "thrown" /\ calls'[c].error = calls[c].error]_vars

C5_Witness ==
    \E c \in Calls :
        /\ calls[c].kind = "necessary"
        /\ calls[c].status = "thrown"
        /\ \E i \in 1..Len(calls[c].subs) : calls[c].subs[i].pc = "write"

(* C6: a listing in which mkdir or readdir fails raises nothing: it returns the empty
   list and logs the failure, and no call ends with the listing's error. *)
C6_ListingNeverRaises ==
    \A c \in Calls :
        /\ calls[c].error /= "listing"
        /\ (calls[c].lists /\ calls[c].failed) =>
              calls[c].listed = {} /\ "listError" \in calls[c].logs

C6_Witness ==
    \E c \in Calls :
        /\ calls[c].lists /\ calls[c].failed
        /\ calls[c].status = "returned"
        /\ AssetLangs(calls[c].dir) /= {}

(* C7: an install of a language that was not installed when it started, and that
   failed because the download timed out, leaves the language unreported by a
   following listing (no other install of the language being about). *)
C7_TimedOutNotListed ==
    \A x \in Installs :
        (/\ Sub(x).pc = "rejected"
         /\ Sub(x).err = "timeout"
         /\ ~Sub(x).had
         /\ \A y \in Installs : y /= x => Sub(y).path /= Sub(x).path)
            => Sub(x).lang \notin ListedNow

(* C8: an asset file of the asset root that exists and is not being written by an
   install stays, with its contents, through every step. *)
C8_AssetNeverChanges ==
    [][\A p \in DOMAIN files :
          (IsAsset(p) /\ ~BeingWritten(p)) => p \in DOMAIN files' /\ files'[p] = files[p]]_vars

(* C9: a recognize command that has ended has left no worker live. *)
C9_WorkerTerminated ==
    \A c \in Calls :
        (calls[c].kind = "recognize" /\ calls[c].status \in {"returned", "thrown"})
            => calls[c].worker /= "live"

(* C10: when an install finishes successfully after another install of the same
   file has, the file holds exactly the bytes the install finishing now wrote. *)
C10_LastWriterWins ==
    [][\A x \in Installs, y \in Installs :
          (/\ x /= y
           /\ Sub(x).path = Sub(y).path
           /\ Sub(y).pc = "resolved"
           /\ Sub(x).pc = "write"
           /\ calls'[x[1]].subs[x[2]].pc = "resolved")
              => files'[Sub(x).path] = Body(x, Sub(x).sent)]_vars

====
